---- MODULE Spec2Model ----
(***************************************************************************)
(* Local Texture Search (image_compare.py): one run of the command line    *)
(* program.  main() validates its arguments, fixes the log file name,      *)
(* lists the candidate directory and either scans the candidates itself    *)
(* (image_compare, process 0) or splits them into chunks and starts one    *)
(* worker process per chunk (multithreading_compare, processes 1..4).      *)
(* Every process appends its match records to the same log file.           *)
(*                                                                         *)
(* Paths are abstracted to identifiers: candidate k is the k-th path       *)
(* returned by glob.  A normalized image is a short tuple of pixel         *)
(* intensities (the canonical 1024x1024 buffer cut down to two pixels).    *)
(* The image library and the file system are the environment: what opening *)
(* a path yields, and how many SIFT matches a pair of images has, are      *)
(* inputs drawn from small sets.                                           *)
(***************************************************************************)
EXTENDS Integers, Sequences, FiniteSets, TLC

VARIABLES
    pc_main,              \* position of the main process
    exitcode,             \* exit code of the main process (read when pc_main = "exited")
    key_file,             \* what is stored at compare_file (a member of KeyKinds)
    clock,                \* time.time() at line 241
    use_threading,        \* main's use_threading
    argument_dict,        \* main's argument_dict (shared, mutated per worker)
    files,                \* candidate path -> what is stored there
    filename_list,        \* glob result
    filename_list_chunks, \* multithreading_compare's filename_list_chunks
    i,                    \* loop variable of the split loop, line 150
    started,              \* number of worker processes started so far
    process,              \* process id -> image_compare activation
    visits,               \* candidate path -> times the loop body ran on it
    fs                    \* log directory: file name -> lines written

vars == <<pc_main, exitcode, key_file, clock, use_threading, argument_dict, files,
          filename_list, filename_list_chunks, i, started, process, visits, fs>>

\* ---------------------------------------------------------------- bounds
MaxFiles == 3      \* candidates in the directory, full runs
MaxLen == 9        \* candidates in the directory, partition-only runs

\* ------------------------------------------------------ program constants
MSEThreshold == 1000
SIFTThreshold == 400
MinThreads == 2
MaxThreads == 4

Procs == 0..MaxThreads          \* 0: main itself (no threading); 1..4: workers
Workers == 1..MaxThreads

\* ------------------------------------------------------------ pure helpers
Min(a, b) == IF a < b THEN a ELSE b

RECURSIVE SumTo(_, _)
\* sum of f[1..n]
SumTo(f, n) == IF n = 0 THEN 0 ELSE f[n] + SumTo(f, n - 1)

RECURSIVE Flatten(_)
\* concatenation of a sequence of sequences
Flatten(ss) == IF ss = <<>> THEN <<>> ELSE Head(ss) \o Flatten(Tail(ss))

\* Python list[a:b] for 0 <= a, 0 <= b (indices clamp to the length)
Slice(list, a, b) == SubSeq(list, Min(a, Len(list)) + 1, Min(b, Len(list)))

\* Python round(num / den) for num >= 0, den > 0: round half to even
Round(num, den) ==
    LET q == num \div den
        r == num % den
    IN  IF 2 * r < den THEN q
        ELSE IF 2 * r > den THEN q + 1
        ELSE IF q % 2 = 0 THEN q ELSE q + 1

\* mse(image_a, image_b), lines 25-30.  The images used below have two pixels
\* and an even sum of squared differences, so the float division is exact.
mse(image_a, image_b) ==
    SumTo([k \in 1..Len(image_a) |-> (image_a[k] - image_b[k]) * (image_a[k] - image_b[k])],
          Len(image_a)) \div Len(image_a)

\* ------------------------------------------------------------ partitioning
ShareOfFilesNoMod(len, threads) == Round(len, threads)
\* lines 145-146: mod = len % threads; share_of_files = round((len - mod) / threads)
ShareOfFiles(len, threads) == Round(len - (len % threads), threads)

ChunkOfNoRemainder(list, n, threads, share_of_files) ==
    Slice(list, (n - 1) * share_of_files, n * share_of_files)
\* lines 151-158: the n-th chunk (n = 1..threads)
ChunkOf(list, n, threads, share_of_files) ==
    IF n < threads
    THEN Slice(list, (n - 1) * share_of_files, n * share_of_files)
    ELSE Slice(list, (n - 1) * share_of_files, Len(list))

\* --------------------------------------------------------------- the inputs
\* what line 191 (isfile) and lines 42-47 (Image.open ... imdecode) find at
\* compare_file
KeyKinds == {"missing", "UnidentifiedImageError", "PermissionError", "image"}
KeyImage == <<10, 10>>
\* what lines 68-73 raise, or "ok".  glob (line 245) returns every entry of
\* the directory, sub-directories included: Image.open on a directory raises
\* IsADirectoryError, an OSError that is none of the three classes caught.
CaughtLoadErrors == {"FileNotFoundError", "UnidentifiedImageError", "PermissionError"}
LoadErrors == CaughtLoadErrors \cup {"IsADirectoryError"}
\* mse against KeyImage: <<40, 40>> -> 900, <<30, 50>> -> 1000
CandidateImages == {<<40, 40>>, <<30, 50>>}
File(load, pix, matcher_error, matches) ==
    [load |-> load, pix |-> pix, matcher_error |-> matcher_error, matches |-> matches]
ErrorFiles == {File(e, <<>>, FALSE, 0) : e \in LoadErrors}
HighLowResFiles == {File("ok", p, FALSE, 0) : p \in CandidateImages}
CompareFiles == {File("ok", KeyImage, TRUE, 0)} \cup
                {File("ok", KeyImage, FALSE, n) : n \in {SIFTThreshold, SIFTThreshold + 1}}
\* the attributes a mode does not read are held fixed
DirectoryContents(compare) ==
    ErrorFiles \cup (IF compare THEN CompareFiles ELSE HighLowResFiles)
Timestamps == {1, 2}
\* the threading= parameter, as text; "" when absent
ThreadingParams == {"", "x", "1", "2", "3", "4", "5"}
\* int(use_threading), line 211, on the digit strings above
IntOf(text) == CASE text = "1" -> 1 [] text = "2" -> 2 [] text = "3" -> 3
                 [] text = "4" -> 4 [] text = "5" -> 5

\* ------------------------------------------------------------------ state
\* image_compare's parameter defaults, line 33-34
DefaultArgs ==
    [filename_list |-> <<>>, compare_file |-> "", log_filename |-> <<>>,
     verbose |-> FALSE, compare |-> FALSE, highlowres |-> FALSE]
NoProcess == [state |-> "none", kwargs |-> DefaultArgs, args |-> DefaultArgs, processed |-> 0]
NoFiles == [k \in {} |-> File("ok", <<>>, FALSE, 0)]

LogFilenameFixed(time_prefix) == <<0, "_matches.txt">>
\* lines 241-242: f"{time_prefix}_matches.txt"
LogFilename(time_prefix) == <<time_prefix, "_matches.txt">>

Init ==
    /\ pc_main = "main"
    /\ exitcode = 0
    /\ key_file = "unread"
    /\ clock = 0
    /\ use_threading = 0
    /\ argument_dict = DefaultArgs
    /\ files = NoFiles
    /\ filename_list = <<>>
    /\ filename_list_chunks = <<>>
    /\ i = 0
    /\ started = 0
    /\ process = [p \in Procs |-> NoProcess]
    /\ visits = [c \in {} |-> 0]
    /\ fs = [n \in {} |-> <<>>]

\* the main process ends with exit code 1: exit(1) at lines 51, 54, 193, 201,
\* 215, 218, 234 and 238, or an exception that nothing catches (traceback)
Exit1 == pc_main' = "exited" /\ exitcode' = 1

\* main, lines 189-238: argument handling
MainArguments ==
    /\ pc_main = "main"
    /\ \E kind \in KeyKinds, isdir \in BOOLEAN, threading \in ThreadingParams,
          v \in BOOLEAN, modes \in SUBSET {"compare", "highlowres"} :
         /\ key_file' = kind
         /\ IF kind = "missing" \/ ~isdir
               \/ threading = "x"
               \/ (threading # "" /\ IntOf(threading) \notin MinThreads..MaxThreads)
               \/ Cardinality(modes) # 1
            THEN /\ Exit1
                 /\ UNCHANGED <<use_threading, argument_dict>>
            ELSE /\ pc_main' = "prepare"
                 /\ exitcode' = exitcode
                 /\ use_threading' = IF threading = "" THEN 0 ELSE IntOf(threading)
                 /\ argument_dict' = [argument_dict EXCEPT
                        !.compare_file = "compare_file",
                        !.verbose = v,
                        !.compare = ("compare" \in modes),
                        !.highlowres = ("highlowres" \in modes)]
    /\ UNCHANGED <<clock, files, filename_list, filename_list_chunks, i, started,
                   process, visits, fs>>

\* main, lines 240-248: log file name and directory listing
MainPrepare ==
    /\ pc_main = "prepare"
    /\ \E t \in Timestamps, n \in 0..MaxFiles :
         \E dir \in [1..n -> DirectoryContents(argument_dict.compare)] :
            /\ clock' = t
            /\ argument_dict' = [argument_dict EXCEPT !.log_filename = LogFilename(t)]
            /\ filename_list' = [k \in 1..n |-> k]
            /\ files' = dir
            /\ visits' = [c \in 1..n |-> 0]
    /\ pc_main' = "dispatch"
    /\ UNCHANGED <<exitcode, key_file, use_threading, filename_list_chunks, i, started,
                   process, fs>>

\* main, lines 253-255: no threading, image_compare(**argument_dict) in the
\* main process
MainSingle ==
    /\ pc_main = "dispatch"
    /\ use_threading = 0
    /\ argument_dict' = [argument_dict EXCEPT !.filename_list = filename_list]
    /\ process' = [process EXCEPT ![0] =
                     [state |-> "started", kwargs |-> argument_dict',
                      args |-> DefaultArgs, processed |-> 0]]
    /\ pc_main' = "image_compare"
    /\ UNCHANGED <<exitcode, key_file, clock, use_threading, files, filename_list,
                   filename_list_chunks, i, started, visits, fs>>

\* main, lines 251-252, and multithreading_compare, lines 144-148
MultithreadingEnter ==
    /\ pc_main = "dispatch"
    /\ use_threading # 0
    /\ filename_list_chunks' = <<>>
    /\ i' = 1
    /\ pc_main' = "split"
    /\ UNCHANGED <<exitcode, key_file, clock, use_threading, argument_dict, files,
                   filename_list, started, process, visits, fs>>

\* multithreading_compare, lines 150-158: one iteration of the split loop
SplitStep ==
    /\ pc_main = "split"
    /\ i <= use_threading
    /\ filename_list_chunks' =
          Append(filename_list_chunks,
                 ChunkOf(filename_list, i, use_threading,
                         ShareOfFiles(Len(filename_list), use_threading)))
    /\ i' = i + 1
    /\ UNCHANGED <<pc_main, exitcode, key_file, clock, use_threading, argument_dict,
                   files, filename_list, started, process, visits, fs>>

\* The kwargs a process runs image_compare with.  Process.__init__ copies the
\* dict it is given (and start() pickles the copy for the spawned child), so a
\* worker sees argument_dict as it was at lines 164/169/175/181; process 0 is
\* called with **argument_dict at line 255.
WorkerArgsAliased(p) == argument_dict
WorkerArgs(p) == process[p].kwargs

\* multithreading_compare, lines 162-183: start the next worker process
StartProcess ==
    /\ pc_main = "split"
    /\ i > use_threading
    /\ started < use_threading
    /\ started' = started + 1
    /\ argument_dict' = [argument_dict EXCEPT
                            !.filename_list = filename_list_chunks[started']]
    /\ process' = [process EXCEPT ![started'] =
                     [state |-> "started", kwargs |-> argument_dict',
                      args |-> DefaultArgs, processed |-> 0]]
    /\ UNCHANGED <<pc_main, exitcode, key_file, clock, use_threading, files,
                   filename_list, filename_list_chunks, i, visits, fs>>

\* --------------------------------------------------------- image_compare
\* lines 64 and 131-135: the loop goes on, or the function returns
AfterIteration(processed, list) == IF processed = Len(list) THEN "done" ELSE "scan"

\* what ends the main process when image_compare runs in it (process 0)
EndsMain(p, state) == p = 0 /\ state \in {"exit1", "raised"}

\* image_compare, lines 33-61: bind the parameters, load the key image
LoadKey(p) ==
    /\ process[p].state = "started"
    /\ LET a == WorkerArgs(p)
           state == IF key_file \in {"UnidentifiedImageError", "PermissionError"}
                    THEN "exit1"
                    ELSE AfterIteration(0, a.filename_list)
       IN  /\ process' = [process EXCEPT ![p].args = a, ![p].state = state]
           /\ IF EndsMain(p, state) THEN Exit1 ELSE UNCHANGED <<pc_main, exitcode>>
    /\ UNCHANGED <<key_file, clock, use_threading, argument_dict, files, filename_list,
                   filename_list_chunks, i, started, visits, fs>>

\* line 106
IsMatchSIFT(matches) == matches > SIFTThreshold
IsMatchMSEInclusive(comparison_mse) == comparison_mse <= MSEThreshold
\* line 125
IsMatchMSE(comparison_mse) == comparison_mse < MSEThreshold

MatcherErrorPropagates == "raise"
\* lines 114-115: except cv2.error: pass
OnMatcherError == "nomatch"

\* lines 66-129, one candidate: "skip" (continue), "raise" (an exception
\* leaves image_compare), "match" (a line is written) or "nomatch"
IterationOutcome(f, a) ==
    IF f.load # "ok"
    THEN IF f.load \in CaughtLoadErrors THEN "skip" ELSE "raise"
    ELSE IF a.compare
    THEN IF f.matcher_error THEN OnMatcherError
         ELSE IF IsMatchSIFT(f.matches) THEN "match" ELSE "nomatch"
    ELSE IF a.highlowres
    THEN IF IsMatchMSE(mse(KeyImage, f.pix)) THEN "match" ELSE "nomatch"
    ELSE "nomatch"

\* lines 110 and 129: the text written for a match
MatchLine(file_name, f, a) ==
    IF a.compare
    THEN [file_name |-> file_name, label |-> " SIFT Matches:", score |-> f.matches]
    ELSE [file_name |-> file_name, label |-> "", score |-> mse(KeyImage, f.pix)]

WriteLineFront(lines, line) == <<line>> \o lines
\* f.write on a file opened with "a": the line goes to the end of the file
WriteLine(lines, line) == Append(lines, line)

\* lines 107-110 and 126-129: open(log_filename, "a"), write, close.  The file
\* is created by the open when it does not exist.
AppendLine(dir, name, line) ==
    IF name \in DOMAIN dir
    THEN [dir EXCEPT ![name] = WriteLine(@, line)]
    ELSE dir @@ (name :> WriteLine(<<>>, line))

\* image_compare, lines 64-135: one iteration of the scan loop (and the
\* return, after the last one)
ScanStep(p) ==
    /\ process[p].state = "scan"
    /\ LET a == process[p].args
           processed == process[p].processed + 1
           file_name == a.filename_list[processed]
           f == files[file_name]
           outcome == IterationOutcome(f, a)
           state == IF outcome = "raise" THEN "raised"
                    ELSE AfterIteration(processed, a.filename_list)
       IN  /\ process' = [process EXCEPT ![p].processed = processed, ![p].state = state]
           /\ visits' = [visits EXCEPT ![file_name] = @ + 1]
           /\ fs' = IF outcome = "match"
                    THEN AppendLine(fs, a.log_filename, MatchLine(file_name, f, a))
                    ELSE fs
           /\ IF EndsMain(p, state) THEN Exit1 ELSE UNCHANGED <<pc_main, exitcode>>
    /\ UNCHANGED <<key_file, clock, use_threading, argument_dict, files, filename_list,
                   filename_list_chunks, i, started>>

Terminated(p) == process[p].state \in {"done", "exit1", "raised"}

\* main returns (line 255, or line 183 and 252) and the interpreter exits with
\* code 0, after joining the worker processes it started
MainExit ==
    /\ \/ pc_main = "image_compare" /\ process[0].state = "done"
       \/ /\ pc_main = "split"
          /\ i > use_threading
          /\ started = use_threading
          /\ \A p \in 1..started : Terminated(p)
    /\ pc_main' = "exited"
    /\ exitcode' = 0
    /\ UNCHANGED <<key_file, clock, use_threading, argument_dict, files, filename_list,
                   filename_list_chunks, i, started, process, visits, fs>>

Next ==
    \/ MainArguments
    \/ MainPrepare
    \/ MainSingle
    \/ MultithreadingEnter
    \/ SplitStep
    \/ StartProcess
    \/ \E p \in Procs : LoadKey(p)
    \/ \E p \in Procs : ScanStep(p)
    \/ MainExit

Spec == Init /\ [][Next]_vars

\* ------------------------------------------------- partition-only runs
\* main at line 250, for every list length up to MaxLen and every thread count
InitPartition ==
    /\ pc_main = "dispatch"
    /\ exitcode = 0
    /\ key_file = "image"
    /\ clock = 1
    /\ use_threading \in {0} \cup (MinThreads..MaxThreads)
    /\ argument_dict = [DefaultArgs EXCEPT !.compare_file = "compare_file",
                                           !.highlowres = TRUE,
                                           !.log_filename = LogFilename(1)]
    /\ \E n \in 0..MaxLen :
         /\ filename_list = [k \in 1..n |-> k]
         /\ files = [k \in 1..n |-> File("ok", KeyImage, FALSE, 0)]
         /\ visits = [k \in 1..n |-> 0]
    /\ filename_list_chunks = <<>>
    /\ i = 0
    /\ started = 0
    /\ process = [p \in Procs |-> NoProcess]
    /\ fs = [n \in {} |-> <<>>]

NextPartition ==
    \/ MainSingle
    \/ MultithreadingEnter
    \/ SplitStep

SpecPartition == InitPartition /\ [][NextPartition]_vars

\* ------------------------------------------------------ reading the state
Range(seq) == {seq[k] : k \in DOMAIN seq}
BagOf(seq) == [x \in Range(seq) |-> Cardinality({k \in DOMAIN seq : seq[k] = x})]
LogOf(name) == IF name \in DOMAIN fs THEN fs[name] ELSE <<>>
\* the places, in any file, of the lines written for candidate c
LinesFor(c) ==
    UNION {{<<name, k>> : k \in {j \in DOMAIN fs[name] : fs[name][j].file_name = c}} :
           name \in DOMAIN fs}
RecordCount(c) == Cardinality(LinesFor(c))
Entered(p) == process[p].state \in {"scan", "done", "exit1", "raised"}
RunEnded == pc_main = "exited"
\* the split loop is over (threading), or the whole list was handed over (no threading)
PartitionDone ==
    \/ use_threading = 0 /\ pc_main = "image_compare"
    \/ use_threading # 0 /\ pc_main = "split" /\ i > use_threading
Chunks == IF use_threading = 0
          THEN <<process[0].kwargs.filename_list>>
          ELSE filename_list_chunks

\* ------------------------------------------------------------------ claims

\* C1: once the candidates are partitioned (worker count 0, 2, 3 or 4), the
\* chunks are contiguous sub-lists whose concatenation is the candidate list,
\* and every candidate is in exactly one chunk.
C1_ChunksCoverListOnce ==
    PartitionDone =>
        /\ Flatten(Chunks) = filename_list
        /\ \A c \in Range(filename_list) :
              Cardinality({kj \in (DOMAIN Chunks) \X (1..Len(filename_list)) :
                              /\ kj[2] \in DOMAIN Chunks[kj[1]]
                              /\ Chunks[kj[1]][kj[2]] = c}) = 1
C1_Witness ==
    /\ PartitionDone
    /\ use_threading = 4
    /\ filename_list_chunks = << <<1>>, <<2>>, <<3>>, <<4, 5>> >>

\* C2: for W in {2,3,4} and C candidates there are exactly W chunks, the first
\* W-1 of size floor(C/W) and the last of size C - (W-1)*floor(C/W), which
\* exceeds floor(C/W) by at most W-1.
C2_ChunkSizes ==
    (PartitionDone /\ use_threading \in 2..4) =>
        LET W == use_threading
            C == Len(filename_list)
        IN  /\ Len(filename_list_chunks) = W
            /\ \A k \in 1..(W - 1) : Len(filename_list_chunks[k]) = C \div W
            /\ Len(filename_list_chunks[W]) = C - (W - 1) * (C \div W)
            /\ Len(filename_list_chunks[W]) - (C \div W) <= W - 1
C2_Witness ==
    /\ PartitionDone
    /\ use_threading = 3
    /\ Len(filename_list) = 8
    /\ Len(filename_list_chunks[3]) = 4

\* what a scan of the whole list by one process writes, from position k on:
\* the log of a run without threading over the same inputs
RECURSIVE SequentialLog(_, _)
SequentialLog(a, k) ==
    IF k > Len(a.filename_list) THEN <<>>
    ELSE LET file_name == a.filename_list[k]
             outcome == IterationOutcome(files[file_name], a)
         IN  IF outcome = "raise" THEN <<>>
             ELSE IF outcome = "match"
             THEN <<MatchLine(file_name, files[file_name], a)>> \o SequentialLog(a, k + 1)
             ELSE SequentialLog(a, k + 1)
SingleProcessLog ==
    IF key_file # "image" THEN <<>>
    ELSE SequentialLog([argument_dict EXCEPT !.filename_list = filename_list], 1)

\* C3: a run with 2, 3 or 4 workers ends with the same multiset of match
\* records in the log as a run without threading over the same inputs.
C3_SameRecordsAsSingleProcess ==
    (RunEnded /\ use_threading \in 2..4 /\ started = use_threading) =>
        BagOf(LogOf(<<clock, "_matches.txt">>)) = BagOf(SingleProcessLog)

\* C4: in highlowres mode every readable candidate a scan has compared has
\* exactly one match record if its MSE against the key is below 1000, and none
\* if its MSE is 1000 or more.
C4_OneRecordIffBelowThreshold ==
    \A p \in Procs :
        process[p].args.highlowres =>
            \A k \in 1..process[p].processed :
                LET c == process[p].args.filename_list[k]
                IN  files[c].load = "ok" =>
                        RecordCount(c) = IF mse(KeyImage, files[c].pix) < 1000 THEN 1 ELSE 0
C4_Witness ==
    \E p \in Procs :
        /\ process[p].args.highlowres
        /\ \E j, k \in 1..process[p].processed :
              LET cj == process[p].args.filename_list[j]
                  ck == process[p].args.filename_list[k]
              IN  /\ files[cj].load = "ok" /\ mse(KeyImage, files[cj].pix) = 900
                  /\ RecordCount(cj) = 1
                  /\ files[ck].load = "ok" /\ mse(KeyImage, files[ck].pix) = 1000
                  /\ RecordCount(ck) = 0

\* C5: a candidate that cannot be loaded as an image never aborts the scan and
\* never produces a match record.
C5_UnloadableNeverAborts ==
    \A p \in Procs :
        \A k \in 1..process[p].processed :
            LET c == process[p].args.filename_list[k]
            IN  files[c].load # "ok" =>
                    /\ RecordCount(c) = 0
                    /\ ~(process[p].state = "raised" /\ k = process[p].processed)

\* C6: when the key image is missing or is not a valid, readable image, the
\* run's process exits with a nonzero exit code, and no candidate was compared
\* and no record written.
C6_BadKeyExitsNonzero ==
    (RunEnded /\ key_file \in {"missing", "UnidentifiedImageError", "PermissionError"}) =>
        /\ exitcode # 0
        /\ DOMAIN fs = {}
        /\ \A c \in DOMAIN visits : visits[c] = 0

\* the candidate is one the code logs: readable and over the mode's threshold
Matches(c) ==
    /\ files[c].load = "ok"
    /\ IF argument_dict.compare
       THEN ~files[c].matcher_error /\ files[c].matches > 400
       ELSE mse(KeyImage, files[c].pix) < 1000

\* C7 as stated: every run that ends with exit code zero leaves one log file
\* named from the start timestamp, also when nothing matched.
C7_ExitZeroLeavesLogFile ==
    (RunEnded /\ exitcode = 0) => DOMAIN fs = {<<clock, "_matches.txt">>}
\* C7 amended: a run that ends with exit code zero leaves at most one log
\* file, named from the start timestamp; the file exists exactly when some
\* compared candidate matched, and then it is not empty.
C7_ExitZeroLogFileIffMatch ==
    (RunEnded /\ exitcode = 0) =>
        /\ DOMAIN fs \subseteq {<<clock, "_matches.txt">>}
        /\ \A name \in DOMAIN fs : fs[name] # <<>>
        /\ (DOMAIN fs # {}) <=> (\E c \in DOMAIN visits : visits[c] > 0 /\ Matches(c))
C7_Witness ==
    /\ RunEnded /\ exitcode = 0 /\ key_file = "image"
    /\ filename_list # <<>>
    /\ \A c \in DOMAIN visits : visits[c] = 1
    /\ DOMAIN fs = {}

\* C8: every worker runs image_compare with its own chunk as filename_list and
\* with the key path, mode, verbosity and log file name fixed in main.
C8_WorkerGetsOwnChunk ==
    \A p \in Workers :
        Entered(p) =>
            /\ process[p].args.filename_list = filename_list_chunks[p]
            /\ process[p].args.compare_file = "compare_file"
            /\ process[p].args.log_filename = <<clock, "_matches.txt">>
            /\ process[p].args.verbose = argument_dict.verbose
            /\ process[p].args.compare = argument_dict.compare
            /\ process[p].args.highlowres = argument_dict.highlowres
            /\ process[p].args.compare # process[p].args.highlowres
C8_Witness ==
    /\ Entered(1) /\ Entered(2)
    /\ started = use_threading
    /\ process[1].args.filename_list # <<>>
    /\ process[2].args.filename_list # <<>>
    /\ process[1].args.filename_list # process[2].args.filename_list

\* C9: within one process the records are in candidate-list order, and no
\* candidate is visited more than once.
C9_RecordsInListOrder ==
    /\ \A c \in DOMAIN visits : visits[c] <= 1
    /\ \A p \in Procs :
          \A j, k \in 1..process[p].processed :
              j < k =>
                  \A a \in LinesFor(process[p].args.filename_list[j]),
                     b \in LinesFor(process[p].args.filename_list[k]) :
                        a[1] = b[1] /\ a[2] < b[2]
C9_Witness ==
    \E p \in Procs :
        \E j, k \in 1..process[p].processed :
            /\ j < k
            /\ LinesFor(process[p].args.filename_list[j]) # {}
            /\ LinesFor(process[p].args.filename_list[k]) # {}

\* C10: in compare mode a candidate on which the matcher fails gets no record
\* and does not end the scan: the process goes on to the next candidate.
C10_MatcherFailureIsNoMatch ==
    \A p \in Procs :
        process[p].args.compare =>
            \A k \in 1..process[p].processed :
                LET c == process[p].args.filename_list[k]
                IN  (files[c].load = "ok" /\ files[c].matcher_error) =>
                        /\ RecordCount(c) = 0
                        /\ process[p].state \in {"scan", "done"} \/ k < process[p].processed
C10_Witness ==
    \E p \in Procs :
        /\ process[p].args.compare
        /\ \E j, k \in 1..process[p].processed :
              /\ j < k
              /\ files[process[p].args.filename_list[j]].matcher_error
              /\ RecordCount(process[p].args.filename_list[k]) = 1

====
